---- MODULE Spec2Model ----
(***************************************************************************)
(* Model of zod-to-schema: the document-schema converter zodToMongoose of  *)
(* src/zodToMongoose.ts, applied to Zod schema descriptors.                *)
(*                                                                         *)
(* A Zod schema is a record whose `kind` is the name of its Zod class;     *)
(* the other fields are the parts of `_def` the converter reads.  An       *)
(* object shape is the sequence of its [key, schema] entries in            *)
(* declaration order (the order of Object.entries).  A produced Mongoose   *)
(* field is a function from the option keys that were assigned to their    *)
(* values, so that the absence of a key is observable.                     *)
(***************************************************************************)
EXTENDS Integers, Sequences, FiniteSets, TLC

(***************************************************************************)
(* Bounds of the explored inputs.                                          *)
(***************************************************************************)
MaxWrap == 3
MaxChecks == 2

(***************************************************************************)
(* Values.  A JavaScript value is a record of its runtime type (the answer *)
(* of `typeof`) and a payload.                                             *)
(***************************************************************************)
StrVal(s) == [ty |-> "string", v |-> s]
NumVal(n) == [ty |-> "number", v |-> ToString(n)]
BoolVal(b) == [ty |-> "boolean", v |-> ToString(b)]
Undefined == [ty |-> "undefined", v |-> ""]

(***************************************************************************)
(* Zod schema constructors (the classes imported from 'zod').              *)
(***************************************************************************)
ZodString(checks) == [kind |-> "ZodString", checks |-> checks]
ZodNumber(checks) == [kind |-> "ZodNumber", checks |-> checks]
ZodBoolean == [kind |-> "ZodBoolean"]
ZodDate == [kind |-> "ZodDate"]
ZodAny == [kind |-> "ZodAny"]
ZodArray(item) == [kind |-> "ZodArray", type |-> item]
ZodEnum(options) == [kind |-> "ZodEnum", options |-> options]
ZodLiteral(value) == [kind |-> "ZodLiteral", value |-> value]
ZodObject(shape) == [kind |-> "ZodObject", shape |-> shape]
ZodOptional(inner) == [kind |-> "ZodOptional", innerType |-> inner]
ZodNullable(inner) == [kind |-> "ZodNullable", innerType |-> inner]
ZodDefault(inner, value) == [kind |-> "ZodDefault", innerType |-> inner, defaultValue |-> value]
ZodEffects(inner) == [kind |-> "ZodEffects", schema |-> inner]

Entry(key, schema) == [key |-> key, schema |-> schema]

\* one entry of the produced SchemaDefinition
Def(key, field) == [key |-> key, field |-> field]

\* `key in shape`
HasKey(shape, key) == \E i \in 1..Len(shape) : shape[i].key = key

\* shape[key]
GetKey(shape, key) == shape[CHOOSE i \in 1..Len(shape) : shape[i].key = key].schema

\* zodRef(modelName, idSchema): the reference helper of zodReferences.ts
zodRef(modelName, idSchema) ==
  ZodEffects(ZodObject(<<Entry("_ref", ZodLiteral(StrVal(modelName))), Entry("id", idSchema)>>))

(***************************************************************************)
(* Mongoose types: a constructor (String, Schema.Types.ObjectId, ...), a   *)
(* one-element array of a constructor, or the string `typeof` returned.    *)
(***************************************************************************)
Ctor(name) == [form |-> "ctor", name |-> name]
ArrayOf(name) == [form |-> "array", name |-> name]
\* variant: every literal is taken for a string
TypeOfAlwaysString(value) == [form |-> "typeof", name |-> "string"]

TypeOf(value) == [form |-> "typeof", name |-> value.ty]

EmailRegex == "/^[^\\s@]+@[^\\s@]+\\.[^\\s@]+$/"

\* mongooseField[key] = value
SetField(mongooseField, key, value) ==
  [k \in (DOMAIN mongooseField) \cup {key} |-> IF k = key THEN value ELSE mongooseField[k]]

EmptyField == [k \in {} |-> TRUE]

(***************************************************************************)
(* zodToMongoose: the unwrap loop.                                         *)
(***************************************************************************)
\* variant: the loop condition leaves out the Nullable wrapper
IsWrapperNotNullable(schema) == schema.kind \in {"ZodOptional", "ZodDefault"}

IsWrapper(schema) == schema.kind \in {"ZodOptional", "ZodDefault", "ZodNullable"}

\* the locals of one field before the loop
InitLocals(schema) ==
  [currentSchema |-> schema, isOptional |-> FALSE, hasDefault |-> FALSE, defaultValue |-> Undefined]

\* variant: an Optional layer found after a default was captured is not recorded
IfOptionalBeforeDefaultOnly(l) ==
  IF l.currentSchema.kind = "ZodOptional"
  THEN [l EXCEPT !.isOptional = l.isOptional \/ ~l.hasDefault,
                 !.currentSchema = l.currentSchema.innerType]
  ELSE l

IfOptional(l) ==
  IF l.currentSchema.kind = "ZodOptional"
  THEN [l EXCEPT !.isOptional = TRUE, !.currentSchema = l.currentSchema.innerType]
  ELSE l

IfDefault(l) ==
  IF l.currentSchema.kind = "ZodDefault"
  THEN [l EXCEPT !.hasDefault = TRUE,
                 !.defaultValue = l.currentSchema.defaultValue,
                 !.currentSchema = l.currentSchema.innerType]
  ELSE l

\* variant: a Nullable layer is recorded as if it were an Optional layer
IfNullableAsOptional(l) ==
  IF l.currentSchema.kind = "ZodNullable"
  THEN [l EXCEPT !.isOptional = TRUE, !.currentSchema = l.currentSchema.innerType]
  ELSE l

IfNullable(l) ==
  IF l.currentSchema.kind = "ZodNullable"
  THEN [l EXCEPT !.currentSchema = l.currentSchema.innerType]
  ELSE l

\* one pass through the loop body: the three `if`s in sequence
UnwrapBody(l) == IfNullable(IfDefault(IfOptional(l)))

RECURSIVE UnwrapLoop(_)
UnwrapLoop(l) == IF IsWrapper(l.currentSchema) THEN UnwrapLoop(UnwrapBody(l)) ELSE l

(***************************************************************************)
(* zodToMongoose: reference detection.                                     *)
(***************************************************************************)
\* variant: only the first check of the id is inspected
HasLength24FirstCheckOnly(checks) ==
  checks # <<>> /\ checks[1].kind = "length" /\ checks[1].value = 24

HasLength24(checks) ==
  \E i \in 1..Len(checks) : checks[i].kind = "length" /\ checks[i].value = 24

\* variant: any check of the id with value 24 counts, whatever its kind
IsRefSchemaAnyCheck24(currentSchema) ==
  /\ currentSchema.kind = "ZodObject"
  /\ HasKey(currentSchema.shape, "_ref")
  /\ HasKey(currentSchema.shape, "id")
  /\ LET refSchema == GetKey(currentSchema.shape, "_ref")
         idSchema == GetKey(currentSchema.shape, "id")
     IN /\ refSchema.kind = "ZodLiteral"
        /\ refSchema.value.ty = "string"
        /\ idSchema.kind = "ZodString"
        /\ \E i \in 1..Len(idSchema.checks) : idSchema.checks[i].value = 24

IsRefSchema(currentSchema) ==
  /\ currentSchema.kind = "ZodObject"
  /\ HasKey(currentSchema.shape, "_ref")
  /\ HasKey(currentSchema.shape, "id")
  /\ LET refSchema == GetKey(currentSchema.shape, "_ref")
         idSchema == GetKey(currentSchema.shape, "id")
     IN /\ refSchema.kind = "ZodLiteral"
        /\ refSchema.value.ty = "string"
        /\ idSchema.kind = "ZodString"
        /\ HasLength24(idSchema.checks)

\* variant: the type switch also runs for a reference and overwrites its type
RefFieldTypeOverwritten(currentSchema) ==
  LET refModel == GetKey(currentSchema.shape, "_ref").value.v
  IN SetField(SetField(EmptyField, "type", Ctor("Mixed")), "ref", refModel)

RefField(currentSchema) ==
  LET refModel == GetKey(currentSchema.shape, "_ref").value.v
  IN SetField(SetField(EmptyField, "type", Ctor("ObjectId")), "ref", refModel)

(***************************************************************************)
(* zodToMongoose: the type switch.                                         *)
(***************************************************************************)
\* variant: the max check writes the key of the min check
StringCheckMaxAsMin(mongooseField, check) ==
  CASE check.kind = "min" -> SetField(mongooseField, "minlength", check.value)
    [] check.kind = "max" -> SetField(mongooseField, "minlength", check.value)
    [] check.kind = "email" -> SetField(mongooseField, "match", EmailRegex)
    [] check.kind = "regex" -> SetField(mongooseField, "match", check.regex)
    [] check.kind = "length" -> SetField(mongooseField, "length", check.value)
    [] OTHER -> mongooseField

StringCheck(mongooseField, check) ==
  CASE check.kind = "min" -> SetField(mongooseField, "minlength", check.value)
    [] check.kind = "max" -> SetField(mongooseField, "maxlength", check.value)
    [] check.kind = "email" -> SetField(mongooseField, "match", EmailRegex)
    [] check.kind = "regex" -> SetField(mongooseField, "match", check.regex)
    [] check.kind = "includes" -> mongooseField
    [] check.kind = "length" -> SetField(mongooseField, "length", check.value)
    [] OTHER -> mongooseField

\* variant: a strict bound is moved to the nearest integer it admits
NumberCheckStrictShifted(mongooseField, check) ==
  CASE check.kind = "min" ->
         SetField(mongooseField, "min", IF check.inclusive THEN check.value ELSE check.value + 1)
    [] check.kind = "max" ->
         SetField(mongooseField, "max", IF check.inclusive THEN check.value ELSE check.value - 1)
    [] check.kind = "int" -> SetField(mongooseField, "validate", "Number.isInteger")
    [] OTHER -> mongooseField

NumberCheck(mongooseField, check) ==
  CASE check.kind = "min" -> SetField(mongooseField, "min", check.value)
    [] check.kind = "max" -> SetField(mongooseField, "max", check.value)
    [] check.kind = "int" -> SetField(mongooseField, "validate", "Number.isInteger")
    [] OTHER -> mongooseField

\* checks.forEach(...) over a String schema's checks, first to last
RECURSIVE StringChecks(_, _)
StringChecks(mongooseField, checks) ==
  IF checks = <<>> THEN mongooseField
  ELSE StringChecks(StringCheck(mongooseField, Head(checks)), Tail(checks))

RECURSIVE NumberChecks(_, _)
NumberChecks(mongooseField, checks) ==
  IF checks = <<>> THEN mongooseField
  ELSE NumberChecks(NumberCheck(mongooseField, Head(checks)), Tail(checks))

\* variant: the Number case yields the type of the String case
ArrayItemTypeNumberAsString(itemType) ==
  CASE itemType.kind = "ZodString" -> ArrayOf("String")
    [] itemType.kind = "ZodNumber" -> ArrayOf("String")
    [] itemType.kind = "ZodBoolean" -> ArrayOf("Boolean")
    [] OTHER -> ArrayOf("Mixed")

ArrayItemType(itemType) ==
  CASE itemType.kind = "ZodString" -> ArrayOf("String")
    [] itemType.kind = "ZodNumber" -> ArrayOf("Number")
    [] itemType.kind = "ZodBoolean" -> ArrayOf("Boolean")
    [] itemType.kind = "ZodObject" -> ArrayOf("Mixed")
    [] OTHER -> ArrayOf("Mixed")

TypeSwitch(currentSchema) ==
  CASE currentSchema.kind = "ZodString" ->
         StringChecks(SetField(EmptyField, "type", Ctor("String")), currentSchema.checks)
    [] currentSchema.kind = "ZodNumber" ->
         NumberChecks(SetField(EmptyField, "type", Ctor("Number")), currentSchema.checks)
    [] currentSchema.kind = "ZodBoolean" -> SetField(EmptyField, "type", Ctor("Boolean"))
    [] currentSchema.kind = "ZodDate" -> SetField(EmptyField, "type", Ctor("Date"))
    [] currentSchema.kind = "ZodArray" ->
         SetField(EmptyField, "type", ArrayItemType(currentSchema.type))
    [] currentSchema.kind = "ZodEnum" ->
         SetField(SetField(EmptyField, "type", Ctor("String")), "enum", currentSchema.options)
    [] currentSchema.kind = "ZodLiteral" ->
         SetField(SetField(EmptyField, "type", TypeOf(currentSchema.value)),
                  "enum", <<currentSchema.value>>)
    [] currentSchema.kind = "ZodObject" -> SetField(EmptyField, "type", Ctor("Mixed"))
    [] OTHER -> SetField(EmptyField, "type", Ctor("Mixed"))

(***************************************************************************)
(* zodToMongoose: one field, and the whole schema.                         *)
(***************************************************************************)
HandleDefault(mongooseField, l) ==
  IF l.hasDefault THEN SetField(mongooseField, "default", l.defaultValue) ELSE mongooseField

HandleRequired(mongooseField, l) == SetField(mongooseField, "required", ~l.isOptional)

\* the body of the for loop for one [key, schema] entry
ConvertField(schema) ==
  LET l == UnwrapLoop(InitLocals(schema))
      typed == IF IsRefSchema(l.currentSchema)
               THEN RefField(l.currentSchema)
               ELSE TypeSwitch(l.currentSchema)
  IN HandleRequired(HandleDefault(typed, l), l)

\* variant: a new key is put in front of the keys already present
AssignDefInFront(definition, key, field) ==
  IF \E i \in 1..Len(definition) : definition[i].key = key
  THEN [i \in 1..Len(definition) |->
          IF definition[i].key = key THEN Def(key, field) ELSE definition[i]]
  ELSE <<Def(key, field)>> \o definition

\* mongooseSchemaDefinition[key] = mongooseField: a key already present keeps
\* its place and gets the new value, a new key comes last
AssignDef(definition, key, field) ==
  IF \E i \in 1..Len(definition) : definition[i].key = key
  THEN [i \in 1..Len(definition) |->
          IF definition[i].key = key THEN Def(key, field) ELSE definition[i]]
  ELSE Append(definition, Def(key, field))

\* the for loop over Object.entries(shape), from the entries converted so far
RECURSIVE ConvertEntries(_, _)
ConvertEntries(definition, entries) ==
  IF entries = <<>> THEN definition
  ELSE ConvertEntries(AssignDef(definition, Head(entries).key, ConvertField(Head(entries).schema)),
                      Tail(entries))

\* the SchemaDefinition built from an empty one over all the entries in order
ConvertShape(shape) == ConvertEntries(<<>>, shape)

Returned(value) == [kind |-> "return", value |-> value]
Thrown(error) == [kind |-> "throw", error |-> error]

\* Only a ZodObject has a `shape`; Object.entries(undefined) throws a TypeError.
zodToMongoose(zodSchema) ==
  IF zodSchema.kind = "ZodObject"
  THEN Returned(ConvertShape(zodSchema.shape))
  ELSE Thrown("TypeError")

(***************************************************************************)
(* createMongooseModel and the part of mongoose it uses.  The registry     *)
(* mongoose.models maps a model name to its model; a model is identified   *)
(* by the rank of the mongoose.model call that created it.                 *)
(***************************************************************************)
\* new Schema(definition, options)
NewSchema(definition, options) == [definition |-> definition, options |-> options]

\* mongoose.model(name, schema) on registry `models` after the calls `modelLog`:
\* a name already registered is refused, any other name gets a new model
MongooseModel(models, modelLog, name, schema) ==
  IF name \in DOMAIN models
  THEN [ret |-> Thrown("OverwriteModelError"), models |-> models, modelLog |-> Append(modelLog, name)]
  ELSE LET model == [id |-> Len(modelLog) + 1, modelName |-> name, schema |-> schema]
       IN [ret |-> Returned(model),
           models |-> [n \in DOMAIN models \cup {name} |-> IF n = name THEN model ELSE models[n]],
           modelLog |-> Append(modelLog, name)]

\* variant: the registry is not consulted
ModelExistsNever(models, modelName) == FALSE

\* mongoose.models[modelName] is truthy
ModelExists(models, modelName) == modelName \in DOMAIN models

\* the outcome of createMongooseModel(modelName, zodSchema): what the caller
\* gets, the registry and the log of mongoose.model calls afterwards
\* variant: the schema is converted before the registry is looked at
createMongooseModelConvertsFirst(models, modelLog, modelName, zodSchema) ==
  LET mongooseSchemaDefinition == zodToMongoose(zodSchema)
  IN IF mongooseSchemaDefinition.kind = "throw"
     THEN [ret |-> mongooseSchemaDefinition, models |-> models, modelLog |-> modelLog]
     ELSE IF ModelExists(models, modelName)
     THEN [ret |-> Returned(models[modelName]), models |-> models, modelLog |-> modelLog]
     ELSE MongooseModel(models, modelLog, modelName,
                        NewSchema(mongooseSchemaDefinition.value, [timestamps |-> TRUE]))

createMongooseModel(models, modelLog, modelName, zodSchema) ==
  IF ModelExists(models, modelName)
  THEN [ret |-> Returned(models[modelName]), models |-> models, modelLog |-> modelLog]
  ELSE LET mongooseSchemaDefinition == zodToMongoose(zodSchema)
       IN IF mongooseSchemaDefinition.kind = "throw"
          THEN [ret |-> mongooseSchemaDefinition, models |-> models, modelLog |-> modelLog]
          ELSE MongooseModel(models, modelLog, modelName,
                             NewSchema(mongooseSchemaDefinition.value, [timestamps |-> TRUE]))

(***************************************************************************)
(* The part of Zod that zodToObject calls: safeParse and partial, for      *)
(* String (with min, max and length checks), Number, Boolean, Literal, Any,*)
(* Object (unknown keys stripped), Optional, Nullable, Default and the     *)
(* transform of zodRef.  A parsed datum is a value record; an object is    *)
(* [ty |-> "object", fields |-> <function from its keys to their data>].   *)
(***************************************************************************)
NullVal == [ty |-> "null", v |-> ""]
ObjVal(fields) == [ty |-> "object", fields |-> fields]
NoFields == [k \in {} |-> Undefined]

\* data[key], undefined when the key is absent
Prop(data, key) == IF key \in DOMAIN data.fields THEN data.fields[key] ELSE Undefined

Issue(path, message) == [path |-> path, message |-> message]
Ok(value) == [success |-> TRUE, data |-> value, issues |-> <<>>]
Fail(issues) == [success |-> FALSE, data |-> Undefined, issues |-> issues]

\* the issue of a datum of the wrong type
InvalidType(expected, data, path) ==
  Issue(path, IF data.ty = "undefined" THEN "Required"
              ELSE "Expected " \o expected \o ", received " \o data.ty)

\* the issue of one failed String check, none when the check passes
StringCheckIssues(check, data, path) ==
  CASE check.kind = "min" /\ Len(data.v) < check.value ->
         <<Issue(path, "String must contain at least " \o ToString(check.value) \o " character(s)")>>
    [] check.kind = "max" /\ Len(data.v) > check.value ->
         <<Issue(path, "String must contain at most " \o ToString(check.value) \o " character(s)")>>
    [] check.kind = "length" /\ Len(data.v) # check.value ->
         <<Issue(path, "String must contain exactly " \o ToString(check.value) \o " character(s)")>>
    [] OTHER -> <<>>

RECURSIVE AllStringCheckIssues(_, _, _)
AllStringCheckIssues(checks, data, path) ==
  IF checks = <<>> THEN <<>>
  ELSE StringCheckIssues(Head(checks), data, path) \o AllStringCheckIssues(Tail(checks), data, path)

\* the transform of zodRef: (data) => data.id
RefTransform(value) ==
  IF value.ty = "object" /\ "id" \in DOMAIN value.fields THEN value.fields["id"] ELSE value

RECURSIVE SafeParse(_, _, _)
RECURSIVE ParseEntries(_, _, _, _)

\* the entries of an object shape parsed in order against `data`, from the
\* result `acc` of the entries before them: issues are collected, and a key is
\* set in the output when it is in the input or its parsed value is defined
ParseEntries(entries, data, path, acc) ==
  IF entries = <<>> THEN acc
  ELSE LET key == Head(entries).key
           r == SafeParse(Head(entries).schema, Prop(data, key), Append(path, key))
           set == key \in DOMAIN data.fields \/ r.data.ty # "undefined"
           fields == IF r.success /\ set
                     THEN [k \in DOMAIN acc.fields \cup {key} |->
                             IF k = key THEN r.data ELSE acc.fields[k]]
                     ELSE acc.fields
       IN ParseEntries(Tail(entries), data, path,
                       [fields |-> fields, issues |-> acc.issues \o r.issues])

\* schema.safeParse(data), with the issues located under `path`
SafeParse(schema, data, path) ==
  CASE schema.kind = "ZodString" ->
         IF data.ty # "string" THEN Fail(<<InvalidType("string", data, path)>>)
         ELSE LET issues == AllStringCheckIssues(schema.checks, data, path)
              IN IF issues = <<>> THEN Ok(data) ELSE Fail(issues)
    [] schema.kind = "ZodNumber" ->
         IF data.ty # "number" THEN Fail(<<InvalidType("number", data, path)>>) ELSE Ok(data)
    [] schema.kind = "ZodBoolean" ->
         IF data.ty # "boolean" THEN Fail(<<InvalidType("boolean", data, path)>>) ELSE Ok(data)
    [] schema.kind = "ZodLiteral" ->
         IF data # schema.value
         THEN Fail(<<Issue(path, "Invalid literal value, expected " \o
                                 (IF schema.value.ty = "string"
                                  THEN "\"" \o schema.value.v \o "\""
                                  ELSE schema.value.v))>>)
         ELSE Ok(data)
    [] schema.kind = "ZodOptional" ->
         IF data.ty = "undefined" THEN Ok(Undefined) ELSE SafeParse(schema.innerType, data, path)
    [] schema.kind = "ZodNullable" ->
         IF data.ty = "null" THEN Ok(NullVal) ELSE SafeParse(schema.innerType, data, path)
    [] schema.kind = "ZodDefault" ->
         SafeParse(schema.innerType,
                   IF data.ty = "undefined" THEN schema.defaultValue ELSE data, path)
    [] schema.kind = "ZodObject" ->
         IF data.ty # "object" THEN Fail(<<InvalidType("object", data, path)>>)
         ELSE LET r == ParseEntries(schema.shape, data, path, [fields |-> NoFields, issues |-> <<>>])
              IN IF r.issues = <<>> THEN Ok(ObjVal(r.fields)) ELSE Fail(r.issues)
    [] schema.kind = "ZodEffects" ->
         LET r == SafeParse(schema.schema, data, path)
         IN IF r.success THEN Ok(RefTransform(r.data)) ELSE r
    [] OTHER -> Ok(data)

\* zodSchema.partial(): every field of the shape made optional, in a new object
Partial(zodSchema) ==
  ZodObject([i \in 1..Len(zodSchema.shape) |->
               Entry(zodSchema.shape[i].key, ZodOptional(zodSchema.shape[i].schema))])

(***************************************************************************)
(* zodToObject.                                                            *)
(***************************************************************************)
NoOptions == [given |-> FALSE, partial |-> FALSE]
Options(partial) == [given |-> TRUE, partial |-> partial]

\* variant: the partial option is not looked at
SchemaToUseAsGiven(zodSchema, options) == zodSchema

\* variant: the Object under a transform or an Optional wrapper is widened too
SchemaToUseThroughWrappers(zodSchema, options) ==
  IF ~(options.given /\ options.partial) THEN zodSchema
  ELSE IF zodSchema.kind = "ZodObject" THEN Partial(zodSchema)
  ELSE IF zodSchema.kind = "ZodEffects" /\ zodSchema.schema.kind = "ZodObject"
  THEN ZodEffects(Partial(zodSchema.schema))
  ELSE IF zodSchema.kind = "ZodOptional" /\ zodSchema.innerType.kind = "ZodObject"
  THEN ZodOptional(Partial(zodSchema.innerType))
  ELSE zodSchema

\* options?.partial && zodSchema instanceof ZodObject ? zodSchema.partial() : zodSchema
SchemaToUse(zodSchema, options) ==
  IF options.given /\ options.partial /\ zodSchema.kind = "ZodObject"
  THEN Partial(zodSchema)
  ELSE zodSchema

\* array.join(separator) of strings
RECURSIVE Join(_, _)
Join(strings, separator) ==
  IF strings = <<>> THEN ""
  ELSE IF Len(strings) = 1 THEN strings[1]
  ELSE strings[1] \o separator \o Join(Tail(strings), separator)

\* variant: only the first error is reported
ErrorMessagesFirstOnly(errors) ==
  Join(errors[1].path, ".") \o " - " \o errors[1].message

\* variant: an error at the root is given the path "root"
ErrorMessagesRootNamed(errors) ==
  Join([i \in 1..Len(errors) |->
          (IF errors[i].path = <<>> THEN "root" ELSE Join(errors[i].path, "."))
          \o " - " \o errors[i].message], ", ")

\* errors.map((err) => `${err.path.join('.')} - ${err.message}`).join(', ')
ErrorMessages(errors) ==
  Join([i \in 1..Len(errors) |-> Join(errors[i].path, ".") \o " - " \o errors[i].message], ", ")

\* variant: the widened schema is written back into the schema object
SchemaAfterZodToObjectWidened(zodSchema, options) == SchemaToUse(zodSchema, options)

\* the schema object handed to zodToObject, after the call: partial() builds a
\* new object and nothing is assigned to zodSchema
SchemaAfterZodToObject(zodSchema, options) == zodSchema

\* variant: the input is returned instead of the parsed value
zodToObjectReturnsInput(zodSchema, data, options) ==
  LET schemaToUse == SchemaToUse(zodSchema, options)
      parseResult == SafeParse(schemaToUse, data, <<>>)
  IN IF ~parseResult.success
     THEN Thrown("Zod validation error: " \o ErrorMessages(parseResult.issues))
     ELSE Returned(data)

zodToObject(zodSchema, data, options) ==
  LET schemaToUse == SchemaToUse(zodSchema, options)
      parseResult == SafeParse(schemaToUse, data, <<>>)
  IN IF ~parseResult.success
     THEN Thrown("Zod validation error: " \o ErrorMessages(parseResult.issues))
     ELSE Returned(parseResult.data)

(***************************************************************************)
(* The explored inputs.                                                    *)
(***************************************************************************)
SeqsUpTo(S, n) == UNION {[1..k -> S] : k \in 0..n}

Check(kind, value) == [kind |-> kind, value |-> value]
NumCheck(kind, value, inclusive) == [kind |-> kind, value |-> value, inclusive |-> inclusive]

StringCheckAtoms ==
  {Check("min", 12), Check("min", 24), Check("max", 24), Check("length", 12), Check("length", 24),
   [kind |-> "email"], [kind |-> "regex", regex |-> "/^[a-z]+$/"], [kind |-> "includes", value |-> "x"]}

NumberCheckAtoms ==
  {NumCheck("min", 12, TRUE), NumCheck("min", 24, FALSE), NumCheck("max", 24, TRUE),
   NumCheck("max", 12, FALSE), [kind |-> "int"]}

Strings == {ZodString(cs) : cs \in SeqsUpTo(StringCheckAtoms, MaxChecks)}
Numbers == {ZodNumber(cs) : cs \in SeqsUpTo(NumberCheckAtoms, MaxChecks)}

Enums == {ZodEnum(<<"admin", "user">>), ZodEnum(<<"user", "admin">>), ZodEnum(<<"draft">>)}
Literals == {ZodLiteral(StrVal("User")), ZodLiteral(NumVal(7)), ZodLiteral(BoolVal(TRUE))}

ModelNames == {"User", "Tag"}
Id24 == ZodString(<<Check("length", 24)>>)

RefSchemas == {ZodLiteral(StrVal(n)) : n \in ModelNames} \cup {ZodLiteral(NumVal(7)), ZodString(<<>>)}
IdSchemas ==
  {Id24, ZodString(<<Check("length", 12)>>), ZodString(<<Check("min", 24)>>),
   ZodString(<<Check("max", 24)>>), ZodString(<<>>), ZodString(<<Check("min", 12), Check("length", 24)>>),
   ZodOptional(Id24), ZodNumber(<<>>)}

PlainObject == ZodObject(<<Entry("name", ZodString(<<>>)), Entry("age", ZodNumber(<<>>))>>)

Objects ==
  {ZodObject(<<Entry("_ref", r), Entry("id", i)>>) : r \in RefSchemas, i \in IdSchemas}
  \cup {ZodObject(<<Entry("id", i), Entry("_ref", r), Entry("extra", ZodBoolean)>>) :
          r \in RefSchemas, i \in {Id24, ZodString(<<>>)}}
  \cup {ZodObject(<<Entry("_ref", ZodLiteral(StrVal("User")))>>),
        ZodObject(<<Entry("id", Id24)>>),
        PlainObject, ZodObject(<<>>)}

ZodRefs == {zodRef(n, Id24) : n \in ModelNames}
Effects == ZodRefs \cup {ZodEffects(ZodString(<<>>))}

ArrayItems ==
  {ZodString(<<>>), ZodString(<<Check("min", 12)>>), ZodNumber(<<>>), ZodBoolean, ZodDate, ZodAny,
   ZodEnum(<<"admin", "user">>), ZodLiteral(StrVal("User")), PlainObject,
   ZodObject(<<Entry("_ref", ZodLiteral(StrVal("Tag"))), Entry("id", Id24)>>),
   ZodOptional(ZodString(<<>>)), ZodArray(ZodString(<<>>))}
  \cup ZodRefs
Arrays == {ZodArray(item) : item \in ArrayItems}

\* the schemas that are none of the three wrappers
Leaves ==
  Strings \cup Numbers \cup {ZodBoolean, ZodDate, ZodAny} \cup Enums \cup Literals
  \cup Objects \cup Effects \cup Arrays

DefaultValues == {StrVal("a"), StrVal("b")}

Wrap(S) ==
  {ZodOptional(d) : d \in S} \cup {ZodNullable(d) : d \in S}
  \cup {ZodDefault(d, v) : d \in S, v \in DefaultValues}

RECURSIVE Wrapped(_, _)
Wrapped(S, n) == IF n = 0 THEN S ELSE S \cup Wrap(Wrapped(S, n - 1))

\* leaves explored under every chain of wrappers
DeepLeaves ==
  {ZodString(<<>>), ZodString(<<Check("min", 12), Check("max", 24)>>),
   ZodNumber(<<NumCheck("min", 12, TRUE)>>), ZodBoolean, ZodDate, ZodAny,
   ZodEnum(<<"admin", "user">>), ZodLiteral(NumVal(7)), PlainObject,
   ZodObject(<<Entry("_ref", ZodLiteral(StrVal("User"))), Entry("id", Id24)>>),
   ZodObject(<<Entry("_ref", ZodLiteral(StrVal("Tag"))), Entry("id", ZodString(<<Check("length", 12)>>))>>),
   zodRef("User", Id24), ZodArray(ZodString(<<>>)), ZodArray(PlainObject),
   ZodArray(zodRef("Tag", Id24))}

\* every field schema: a leaf under at most MaxWrap wrapper layers, and every
\* leaf bare or under one wrapper
Fields == Wrapped(DeepLeaves, MaxWrap) \cup Wrapped(Leaves, 1)

FewFields ==
  {ZodString(<<>>), ZodOptional(ZodArray(ZodNumber(<<>>))), ZodArray(ZodString(<<>>)),
   ZodDefault(ZodBoolean, BoolVal(TRUE))}

ObjectSchemas ==
  {ZodObject(<<Entry("f", d)>>) : d \in Fields}
  \cup {ZodObject(<<Entry("name", d), Entry("f", e)>>) : d \in FewFields, e \in FewFields}
  \cup {ZodObject(<<Entry("f", d), Entry("age", e), Entry("name", d)>>) : d \in FewFields, e \in FewFields}
  \cup {ZodObject(<<>>)}

NonObjectSchemas ==
  {ZodString(<<>>), ZodArray(PlainObject), zodRef("User", Id24), ZodOptional(PlainObject), ZodAny}

InputSchemas == ObjectSchemas \cup NonObjectSchemas

\* relationship tables a caller may pass along: field name -> model name
Tables == {[k \in K |-> n] : K \in {{}, {"f"}}, n \in {"Tag"}}

(***************************************************************************)
(* The state machine: a caller that invokes the operations one at a time.  *)
(***************************************************************************)
\* the field schemas of the schemas handed to zodToObject
ParseLeaves == {ZodString(<<>>), ZodString(<<Check("min", 2)>>), ZodNumber(<<>>), ZodBoolean}
ParseFields ==
  ParseLeaves \cup {ZodOptional(d) : d \in ParseLeaves} \cup {ZodNullable(ZodString(<<>>))}
  \cup {ZodDefault(ZodString(<<>>), StrVal("Anonymous")), ZodDefault(ZodNumber(<<>>), NumVal(25)),
        ZodOptional(ZodDefault(ZodString(<<>>), StrVal("Anonymous")))}

NestedObject ==
  ZodObject(<<Entry("name", ZodString(<<>>)),
              Entry("tag", ZodDefault(ZodString(<<>>), StrVal("a")))>>)

ParseSchemas ==
  {ZodObject(<<Entry("name", d), Entry("age", e)>>) : d \in ParseFields, e \in ParseFields}
  \cup {ZodObject(<<Entry("user", NestedObject), Entry("age", ZodNumber(<<>>))>>),
        ZodObject(<<>>), ZodString(<<>>), ZodString(<<Check("min", 2), Check("length", 24)>>),
        zodRef("User", Id24), ZodOptional(NestedObject)}

Id24Val == StrVal("0123456789abcdef01234567")
ScalarData == {StrVal("John"), StrVal("J"), NumVal(30), BoolVal(TRUE), NullVal, Undefined}

\* the objects over a set of keys, each key absent or holding one of `values`
ObjectsOver(keys, values) ==
  UNION {{ObjVal(f) : f \in [K -> values]} : K \in SUBSET keys}

ParseData ==
  ObjectsOver({"name", "age"}, ScalarData)
  \cup {ObjVal([f.fields EXCEPT !["extra"] = BoolVal(TRUE)]) :
          f \in ObjectsOver({"name", "age", "extra"}, {StrVal("John"), NumVal(30)}) \ ObjectsOver({"name", "age"}, {StrVal("John"), NumVal(30)})}
  \cup {ObjVal([user |-> u, age |-> a]) :
          u \in ObjectsOver({"name", "tag"}, {StrVal("John"), NumVal(30)}), a \in {NumVal(30), StrVal("John")}}
  \cup {ObjVal([_ref |-> r, id |-> i]) : r \in {StrVal("User"), StrVal("Tag")}, i \in {Id24Val, StrVal("J")}}
  \cup {ObjVal([_ref |-> StrVal("User")])}
  \cup {StrVal("John"), Id24Val, NumVal(30), NullVal, Undefined}

ParseOptions == {NoOptions, Options(FALSE), Options(TRUE)}

(***************************************************************************)
(* zodToPrisma(models, schemaToModelName, modelNameToSchema): the          *)
(* relational-schema-text generator.  The text is kept as its sequence of  *)
(* lines; a Map argument is a function on its keys.                        *)
(***************************************************************************)
ModelEntry(name, schema) == [name |-> name, schema |-> schema]

NoMap == [x \in {} |-> ""]

UnsupportedSchemaMessage == "Only ZodObject schemas are supported for Prisma model generation."

\* the fixed datasource/generator preamble
PrismaPreamble ==
  << "datasource db {",
     "  provider = \"postgresql\"",
     "  url      = env(\"POSTGRESQL_DATABASE_URL\")",
     "}",
     "",
     "generator client {",
     "  provider = \"prisma-client-js\"",
     "}",
     "" >>

\* a model name with its first letter in lower case
LowerFirst(name) ==
  CASE name = "User" -> "user"
    [] name = "Profile" -> "profile"
    [] name = "Post" -> "post"
    [] name = "Role" -> "role"
    [] OTHER -> name

\* a field name with its first letter in upper case
UpperFirst(key) ==
  CASE key = "role" -> "Role"
    [] key = "status" -> "Status"
    [] OTHER -> key

Indent == "  "

IsUuidString(schema) ==
  /\ schema.kind = "ZodString"
  /\ \E c \in 1..Len(schema.checks) : schema.checks[c].kind = "uuid"

\* the column type of a scalar; anything unknown falls back to Json
PrismaScalar(schema) ==
  CASE schema.kind = "ZodString" -> "String"
    [] schema.kind = "ZodNumber" -> "Float"
    [] schema.kind = "ZodBoolean" -> "Boolean"
    [] schema.kind = "ZodDate" -> "DateTime"
    [] OTHER -> "Json"

DefaultAttribute(l) ==
  IF ~l.hasDefault THEN ""
  ELSE IF l.defaultValue.ty = "string" THEN " @default(\"" \o l.defaultValue.v \o "\")"
  ELSE " @default(" \o l.defaultValue.v \o ")"

\* the field's descriptor under its wrappers is the registered schema `target`
Embeds(field, target) == UnwrapLoop(InitLocals(field)).currentSchema = target

\* the entries of the model list that hold schema `target` in a single-valued
\* field, in list order: the other sides of target's one-to-one relations
RECURSIVE Owners(_, _)
Owners(models, target) ==
  IF models = <<>> THEN <<>>
  ELSE LET owner == Head(models)
           holds == /\ owner.schema.kind = "ZodObject"
                    /\ \E i \in 1..Len(owner.schema.shape) : Embeds(owner.schema.shape[i].schema, target)
       IN (IF holds THEN <<owner.name>> ELSE <<>>) \o Owners(Tail(models), target)

ForeignKey(owner) == LowerFirst(owner) \o "Id"

\* the key is the foreign key of a one-to-one relation of this schema
IsForeignKey(key, models, schema, schemaToModelName) ==
  /\ schema \in DOMAIN schemaToModelName
  /\ \E i \in 1..Len(Owners(models, schema)) : key = ForeignKey(Owners(models, schema)[i])

\* variant: the relation name of the embedding side is built target first
RelationNameTargetFirst(from, to) == to \o "To" \o from

RelationName(from, to) == from \o "To" \o to

\* the line of one of the schema's own fields
FieldLine(modelName, schema, key, field, models, schemaToModelName) ==
  LET l == UnwrapLoop(InitLocals(field))
      core == l.currentSchema
      mark == IF l.isOptional THEN "?" ELSE ""
  IN Indent \o key \o " " \o
     ( IF key = "id" /\ IsUuidString(core) THEN "String @id @default(uuid())"
       ELSE IF core \in DOMAIN schemaToModelName
       THEN schemaToModelName[core] \o mark \o
            " @relation(\"" \o RelationName(modelName, schemaToModelName[core]) \o "\")"
       ELSE IF core.kind = "ZodArray" /\ core.type \in DOMAIN schemaToModelName
       THEN schemaToModelName[core.type] \o "[]"
       ELSE IF core.kind = "ZodEnum" THEN UpperFirst(key) \o "Enum" \o mark \o DefaultAttribute(l)
       ELSE IF IsForeignKey(key, models, schema, schemaToModelName)
       THEN PrismaScalar(core) \o mark \o " @unique"
       ELSE PrismaScalar(core) \o mark \o DefaultAttribute(l) )

RECURSIVE FieldLines(_, _, _, _, _)
FieldLines(modelName, schema, entries, models, schemaToModelName) ==
  IF entries = <<>> THEN <<>>
  ELSE <<FieldLine(modelName, schema, Head(entries).key, Head(entries).schema, models, schemaToModelName)>>
       \o FieldLines(modelName, schema, Tail(entries), models, schemaToModelName)

\* the lines synthesized for the foreign-key side of one-to-one relations: the
\* foreign key when the schema does not declare it, and the reciprocal relation
RECURSIVE RelationLines(_, _, _)
RelationLines(modelName, schema, owners) ==
  IF owners = <<>> THEN <<>>
  ELSE LET owner == Head(owners)
           fk == ForeignKey(owner)
       IN (IF HasKey(schema.shape, fk) THEN <<>> ELSE <<Indent \o fk \o " String @unique">>)
          \o <<Indent \o LowerFirst(owner) \o " " \o owner \o " @relation(\""
                 \o RelationName(modelName, owner) \o "\", fields: [" \o fk \o "], references: [id])">>
          \o RelationLines(modelName, schema, Tail(owners))

\* variant: the synthesized lines are put in front of the schema's own fields
ModelBlockRelationsFirst(entry, models, schemaToModelName) ==
  <<"model " \o entry.name \o " {">>
  \o (IF entry.schema \in DOMAIN schemaToModelName
      THEN RelationLines(entry.name, entry.schema, Owners(models, entry.schema))
      ELSE <<>>)
  \o FieldLines(entry.name, entry.schema, entry.schema.shape, models, schemaToModelName)
  \o <<"}", "">>

\* the model block of one entry: own fields, then synthesized lines
ModelBlock(entry, models, schemaToModelName) ==
  <<"model " \o entry.name \o " {">>
  \o FieldLines(entry.name, entry.schema, entry.schema.shape, models, schemaToModelName)
  \o (IF entry.schema \in DOMAIN schemaToModelName
      THEN RelationLines(entry.name, entry.schema, Owners(models, entry.schema))
      ELSE <<>>)
  \o <<"}", "">>

RECURSIVE ModelBlocks(_, _, _)
ModelBlocks(entries, models, schemaToModelName) ==
  IF entries = <<>> THEN <<>>
  ELSE ModelBlock(Head(entries), models, schemaToModelName)
       \o ModelBlocks(Tail(entries), models, schemaToModelName)

RECURSIVE EnumValueLines(_)
EnumValueLines(options) ==
  IF options = <<>> THEN <<>> ELSE <<Indent \o Head(options)>> \o EnumValueLines(Tail(options))

\* the enum fields of all the models, in order, one per synthesized enum name
RECURSIVE EnumsOfShape(_, _)
EnumsOfShape(entries, seen) ==
  IF entries = <<>> THEN seen
  ELSE LET core == UnwrapLoop(InitLocals(Head(entries).schema)).currentSchema
           name == UpperFirst(Head(entries).key) \o "Enum"
           known == \E i \in 1..Len(seen) : seen[i].name = name
       IN EnumsOfShape(Tail(entries),
            IF core.kind = "ZodEnum" /\ ~known
            THEN Append(seen, [name |-> name, options |-> core.options]) ELSE seen)

RECURSIVE EnumsOfModels(_, _)
EnumsOfModels(entries, seen) ==
  IF entries = <<>> THEN seen
  ELSE EnumsOfModels(Tail(entries), EnumsOfShape(Head(entries).schema.shape, seen))

RECURSIVE EnumBlocks(_)
EnumBlocks(enums) ==
  IF enums = <<>> THEN <<>>
  ELSE <<"enum " \o Head(enums).name \o " {">> \o EnumValueLines(Head(enums).options) \o <<"}", "">>
       \o EnumBlocks(Tail(enums))

AllObjectSchemas(models) == \A i \in 1..Len(models) : models[i].schema.kind = "ZodObject"

IsObjectEntry(entry) == entry.schema.kind = "ZodObject"

\* variant: entries that are not Object-shaped are skipped
zodToPrismaSkipsUnsupported(models, schemaToModelName, modelNameToSchema) ==
  LET supported == SelectSeq(models, IsObjectEntry)
  IN Returned(PrismaPreamble
              \o EnumBlocks(EnumsOfModels(supported, <<>>))
              \o ModelBlocks(supported, supported, schemaToModelName))

zodToPrisma(models, schemaToModelName, modelNameToSchema) ==
  IF ~AllObjectSchemas(models)
  THEN Thrown(UnsupportedSchemaMessage)
  ELSE Returned(PrismaPreamble
                \o EnumBlocks(EnumsOfModels(models, <<>>))
                \o ModelBlocks(models, models, schemaToModelName))

\* MaxModels bounds the length of the model list
MaxModels == 3

Uuid == ZodString(<<[kind |-> "uuid"]>>)

profileSchema ==
  ZodObject(<<Entry("id", Uuid), Entry("bio", ZodString(<<>>)), Entry("userId", ZodString(<<>>))>>)

\* a profile that does not declare the foreign key
bareProfileSchema == ZodObject(<<Entry("id", Uuid), Entry("bio", ZodString(<<>>))>>)

userSchema ==
  ZodObject(<<Entry("id", Uuid), Entry("name", ZodString(<<>>)), Entry("profile", profileSchema)>>)

\* a user that holds the bare profile, optionally, and not as its last field
looseUserSchema ==
  ZodObject(<<Entry("id", Uuid), Entry("profile", ZodOptional(bareProfileSchema)),
              Entry("name", ZodString(<<>>))>>)

postSchema ==
  ZodObject(<<Entry("id", Uuid), Entry("title", ZodString(<<>>)), Entry("authorId", ZodString(<<>>))>>)

authorSchema ==
  ZodObject(<<Entry("id", Uuid), Entry("posts", ZodArray(postSchema)),
              Entry("age", ZodDefault(ZodNumber(<<>>), NumVal(25)))>>)

roleSchema ==
  ZodObject(<<Entry("role", ZodEnum(<<"USER", "ADMIN">>)),
              Entry("email", ZodOptional(ZodString(<<[kind |-> "email"]>>)))>>)

\* the entries a model list is made of, one of them not Object-shaped
ModelEntries ==
  {ModelEntry("User", userSchema), ModelEntry("Profile", profileSchema),
   ModelEntry("User", looseUserSchema), ModelEntry("Profile", bareProfileSchema),
   ModelEntry("Post", postSchema), ModelEntry("User", authorSchema),
   ModelEntry("Role", roleSchema), ModelEntry("Invalid", ZodString(<<>>))}

ModelLists == SeqsUpTo(ModelEntries, MaxModels) \ {<<>>}

\* the schema -> name Map that registers every entry of the list
SchemaMapOf(models) ==
  [schema \in {models[i].schema : i \in 1..Len(models)} |->
     models[CHOOSE i \in 1..Len(models) : models[i].schema = schema].name]

\* the name -> schema Map of the list
ModelMapOf(models) ==
  [name \in {models[i].name : i \in 1..Len(models)} |->
     models[CHOOSE i \in 1..Len(models) : models[i].name = name].schema]

\* MaxModelCalls caps the mongoose.model calls of one run
MaxModelCalls == 3

\* the schemas handed to createMongooseModel, one of them not Object-shaped
ModelSchemas ==
  {PlainObject, ZodObject(<<Entry("f", ZodOptional(ZodString(<<>>)))>>), ZodString(<<>>)}

\* the schema objects the caller holds and hands to several calls
SharedSchemas ==
  << PlainObject,
     ZodObject(<<Entry("name", ZodDefault(ZodString(<<>>), StrVal("Anonymous"))),
                 Entry("age", ZodOptional(ZodNumber(<<>>)))>>),
     ZodString(<<>>) >>

SharedData ==
  {ObjVal(NoFields), ObjVal([name |-> StrVal("John")]),
   ObjVal([name |-> StrVal("John"), age |-> NumVal(30)]), StrVal("John")}

VARIABLES pc, call, ret, models, modelLog, locals, heap, widened

vars == <<pc, call, ret, models, modelLog, locals, heap, widened>>

NoCall == [op |-> "none"]
NoRet == [kind |-> "none"]

NoModels == [n \in {} |-> TRUE]

\* no field is being unwrapped
NoLocals == [currentSchema |-> Undefined]

Init ==
  /\ pc = "idle"
  /\ call = NoCall
  /\ ret = NoRet
  /\ models = NoModels
  /\ modelLog = <<>>
  /\ locals = NoLocals
  /\ heap = SharedSchemas
  /\ widened = {}

\* zodToMongoose(zodSchema), called with a relationship table as a further argument
CallZodToMongoose ==
  /\ pc = "idle"
  /\ \E zodSchema \in InputSchemas, relationships \in Tables :
       /\ call' = [op |-> "zodToMongoose", zodSchema |-> zodSchema, relationships |-> relationships]
       /\ ret' = zodToMongoose(zodSchema)
  /\ pc' = "returned"
  /\ UNCHANGED <<models, modelLog, locals, heap, widened>>

\* createMongooseModel(modelName, zodSchema)
CallCreateMongooseModel ==
  /\ pc = "idle"
  /\ Len(modelLog) < MaxModelCalls
  /\ \E modelName \in ModelNames, zodSchema \in ModelSchemas :
       LET out == createMongooseModel(models, modelLog, modelName, zodSchema)
       IN /\ call' = [op |-> "createMongooseModel", modelName |-> modelName, zodSchema |-> zodSchema]
          /\ ret' = out.ret
          /\ models' = out.models
          /\ modelLog' = out.modelLog
  /\ pc' = "returned"
  /\ UNCHANGED <<locals, heap, widened>>

\* other code registers a model of its own under a free name
RegisterDirectly ==
  /\ pc = "idle"
  /\ Len(modelLog) < MaxModelCalls
  /\ \E modelName \in ModelNames \ DOMAIN models :
       LET out == MongooseModel(models, modelLog, modelName, NewSchema(<<>>, [timestamps |-> FALSE]))
       IN /\ models' = out.models
          /\ modelLog' = out.modelLog
  /\ UNCHANGED <<pc, call, ret, locals, heap, widened>>

\* zodToObject(zodSchema, data, options)
CallZodToObject ==
  /\ pc = "idle"
  /\ \E zodSchema \in ParseSchemas, data \in ParseData, options \in ParseOptions :
       /\ call' = [op |-> "zodToObject", zodSchema |-> zodSchema, data |-> data, options |-> options]
       /\ ret' = zodToObject(zodSchema, data, options)
  /\ pc' = "returned"
  /\ UNCHANGED <<models, modelLog, locals, heap, widened>>

\* zodToPrisma(models, schemaToModelName, modelNameToSchema), with the Maps
\* empty or built from the list
CallZodToPrisma ==
  /\ pc = "idle"
  /\ \E ms \in ModelLists, registered \in BOOLEAN :
       LET schemaToModelName == IF registered THEN SchemaMapOf(ms) ELSE NoMap
           modelNameToSchema == IF registered THEN ModelMapOf(ms) ELSE NoMap
       IN /\ call' = [op |-> "zodToPrisma", models |-> ms,
                      schemaToModelName |-> schemaToModelName,
                      modelNameToSchema |-> modelNameToSchema]
          /\ ret' = zodToPrisma(ms, schemaToModelName, modelNameToSchema)
  /\ pc' = "returned"
  /\ UNCHANGED <<models, modelLog, locals, heap, widened>>

\* zodToMongoose on one of the caller's schema objects
SharedZodToMongoose ==
  /\ pc = "idle"
  /\ \E ref \in DOMAIN heap :
       /\ call' = [op |-> "zodToMongoose", ref |-> ref, zodSchema |-> heap[ref]]
       /\ ret' = zodToMongoose(heap[ref])
  /\ pc' = "returned"
  /\ UNCHANGED <<models, modelLog, locals, heap, widened>>

\* zodToObject on one of the caller's schema objects
SharedZodToObject ==
  /\ pc = "idle"
  /\ \E ref \in DOMAIN heap, data \in SharedData, options \in ParseOptions :
       /\ call' = [op |-> "zodToObject", ref |-> ref, zodSchema |-> heap[ref],
                   data |-> data, options |-> options]
       /\ ret' = zodToObject(heap[ref], data, options)
       /\ heap' = [heap EXCEPT ![ref] = SchemaAfterZodToObject(heap[ref], options)]
       /\ widened' = IF options.given /\ options.partial THEN widened \cup {ref} ELSE widened
  /\ pc' = "returned"
  /\ UNCHANGED <<models, modelLog, locals>>

\* createMongooseModel on one of the caller's schema objects
SharedCreateMongooseModel ==
  /\ pc = "idle"
  /\ Len(modelLog) < MaxModelCalls
  /\ \E modelName \in ModelNames, ref \in DOMAIN heap :
       LET out == createMongooseModel(models, modelLog, modelName, heap[ref])
       IN /\ call' = [op |-> "createMongooseModel", ref |-> ref, modelName |-> modelName,
                      zodSchema |-> heap[ref]]
          /\ ret' = out.ret
          /\ models' = out.models
          /\ modelLog' = out.modelLog
  /\ pc' = "returned"
  /\ UNCHANGED <<locals, heap, widened>>

\* the caller drops the outcome and is ready for its next call
Discard ==
  /\ pc \in {"returned", "exited"}
  /\ pc' = "idle"
  /\ call' = NoCall
  /\ ret' = NoRet
  /\ locals' = NoLocals
  /\ UNCHANGED <<models, modelLog, heap, widened>>

\* the converter reaches the `while` of a field: the locals are initialised
WhileEnter ==
  /\ pc = "idle"
  /\ \E schema \in Fields :
       /\ call' = [op |-> "unwrap", schema |-> schema]
       /\ locals' = InitLocals(schema)
  /\ pc' = "loop"
  /\ UNCHANGED <<ret, models, modelLog, heap, widened>>

\* the condition of the `while` holds: one pass through its body
WhileBody ==
  /\ pc = "loop"
  /\ IsWrapper(locals.currentSchema)
  /\ locals' = UnwrapBody(locals)
  /\ UNCHANGED <<pc, call, ret, models, modelLog, heap, widened>>

\* the condition of the `while` fails: control leaves the loop
WhileExit ==
  /\ pc = "loop"
  /\ ~IsWrapper(locals.currentSchema)
  /\ pc' = "exited"
  /\ UNCHANGED <<call, ret, models, modelLog, locals, heap, widened>>

Next == CallZodToMongoose \/ Discard

Spec == Init /\ [][Next]_vars

\* the validate-and-coerce helper alone
ObjectNext == CallZodToObject \/ Discard

ObjectSpec == Init /\ [][ObjectNext]_vars

\* the registry under calls of createMongooseModel and registrations by others
ModelNext == CallCreateMongooseModel \/ RegisterDirectly \/ Discard

ModelSpec == Init /\ [][ModelNext]_vars

\* calls of the three operations of zodToMongoose.ts interleaved on the same
\* schema objects and the same registry
SharedNext ==
  \/ SharedZodToMongoose
  \/ SharedZodToObject
  \/ SharedCreateMongooseModel
  \/ RegisterDirectly
  \/ Discard

SharedSpec == Init /\ [][SharedNext]_vars

\* the relational generator alone
PrismaNext == CallZodToPrisma \/ Discard

PrismaSpec == Init /\ [][PrismaNext]_vars

\* the unwrap loop of one field, pass by pass; the converter is synchronous, so
\* a loop that can take its next step takes it
UnwrapNext == WhileEnter \/ WhileBody \/ WhileExit \/ Discard

UnwrapSpec == Init /\ [][UnwrapNext]_vars /\ WF_vars(WhileBody) /\ WF_vars(WhileExit)

(***************************************************************************)
(* Vocabulary of the properties: what a field schema is, read off its      *)
(* structure and not off the converter's locals.                           *)
(***************************************************************************)
\* the wrapper layers of a field, outermost first
RECURSIVE Layers(_)
Layers(d) == IF IsWrapper(d) THEN <<d>> \o Layers(d.innerType) ELSE <<>>

\* the schema under all the wrapper layers
RECURSIVE Core(_)
Core(d) == IF IsWrapper(d) THEN Core(d.innerType) ELSE d

HasLayer(d, kind) == \E j \in 1..Len(Layers(d)) : Layers(d)[j].kind = kind

LayerDefaults(d) == {Layers(d)[j].defaultValue : j \in {k \in 1..Len(Layers(d)) : Layers(d)[k].kind = "ZodDefault"}}

\* a zodToMongoose call has returned a definition
Converted == pc = "returned" /\ call.op = "zodToMongoose" /\ ret.kind = "return"

FieldIndexes == 1..Len(call.zodSchema.shape)
In(i) == call.zodSchema.shape[i].schema
Key(i) == call.zodSchema.shape[i].key
Out(i) == ret.value[i].field
Has(i, k) == k \in DOMAIN Out(i)

\* C1: required is false exactly when an Optional layer occurs anywhere in the
\* field's chain of Optional/Nullable/Defaulted wrappers, and true otherwise.
C1_RequiredIffNoOptionalLayer ==
  Converted =>
    \A i \in FieldIndexes :
      /\ Len(ret.value) >= i
      /\ Has(i, "required")
      /\ Out(i).required = ~HasLayer(In(i), "ZodOptional")

\* an Optional layer below a Defaulted and a Nullable layer makes the field not
\* required, and a field that is only Defaulted is required
C1_Witness ==
  /\ Converted
  /\ \E i \in FieldIndexes :
       /\ In(i).kind = "ZodDefault"
       /\ In(i).innerType.kind = "ZodNullable"
       /\ In(i).innerType.innerType.kind = "ZodOptional"
       /\ Out(i).required = FALSE

\* C2: for every Defaulted layer with value V around a field, the definition has
\* default = V, whatever the other wrappers and whichever is outermost; a field
\* with no Defaulted layer has no `default` key.
C2_DefaultOfEveryDefaultedLayer ==
  Converted =>
    \A i \in FieldIndexes :
      /\ \A v \in LayerDefaults(In(i)) : Has(i, "default") /\ Out(i).default = v
      /\ LayerDefaults(In(i)) = {} => ~Has(i, "default")

\* a Reference Marker: an Object with a string-literal `_ref` field and a
\* String `id` field carrying a length check of 24
IsMarker(d) ==
  /\ d.kind = "ZodObject"
  /\ \E j, k \in 1..Len(d.shape) :
       /\ d.shape[j].key = "_ref"
       /\ d.shape[j].schema.kind = "ZodLiteral"
       /\ d.shape[j].schema.value.ty = "string"
       /\ d.shape[k].key = "id"
       /\ d.shape[k].schema.kind = "ZodString"
       /\ \E c \in 1..Len(d.shape[k].schema.checks) :
            d.shape[k].schema.checks[c] = Check("length", 24)

MarkerName(d) ==
  LET j == CHOOSE j \in 1..Len(d.shape) : d.shape[j].key = "_ref" IN d.shape[j].schema.value.v

\* C3: a field whose unwrapped schema is a Reference Marker converts to
\* {type: ObjectId, ref: <the literal>} with no key of a scalar branch, and its
\* required flag follows the Optional wrapper.
C3_MarkerIsReference ==
  Converted =>
    \A i \in FieldIndexes :
      IsMarker(Core(In(i))) =>
        /\ Out(i).type = Ctor("ObjectId")
        /\ Has(i, "ref")
        /\ Out(i).ref = MarkerName(Core(In(i)))
        /\ DOMAIN Out(i) \subseteq {"type", "ref", "required", "default"}
        /\ Out(i).required = ~HasLayer(In(i), "ZodOptional")

\* an optional marker whose id carries another check before length(24)
C3_Witness ==
  /\ Converted
  /\ \E i \in FieldIndexes :
       /\ In(i).kind = "ZodOptional"
       /\ IsMarker(In(i).innerType)
       /\ GetKey(In(i).innerType.shape, "id").checks[1].kind = "min"
       /\ Out(i).type = Ctor("ObjectId")
       /\ Out(i).ref = "User"
       /\ Out(i).required = FALSE

\* a schema built by zodRef(modelName, <24-character string>)
IsZodRef(d) == d.kind = "ZodEffects" /\ IsMarker(d.schema)

\* C4: a field declared with zodRef(modelName, 24-character string) converts to
\* {type: ObjectId, ref: modelName}, required unless wrapped in optional.
C4_ZodRefIsReference ==
  Converted =>
    \A i \in FieldIndexes :
      IsZodRef(Core(In(i))) =>
        /\ Out(i).type = Ctor("ObjectId")
        /\ Has(i, "ref")
        /\ Out(i).ref = MarkerName(Core(In(i)).schema)
        /\ Out(i).required = ~HasLayer(In(i), "ZodOptional")

\* C5: a field declared as an array of zodRef(modelName) converts to
\* {type: [ObjectId], ref: modelName, required: true}.
C5_ArrayOfZodRefIsReferenceArray ==
  Converted =>
    \A i \in FieldIndexes :
      (In(i).kind = "ZodArray" /\ IsZodRef(In(i).type)) =>
        /\ Out(i).type = ArrayOf("ObjectId")
        /\ Has(i, "ref")
        /\ Out(i).ref = MarkerName(In(i).type.schema)
        /\ Out(i).required = TRUE

\* C6: when the relationship table has an entry for a field's name, an Array
\* field converts to an array of references and any other field to a single
\* reference, with ref equal to the table's value.
C6_TableEntryIsReference ==
  Converted =>
    \A i \in FieldIndexes :
      Key(i) \in DOMAIN call.relationships =>
        /\ Out(i).type = IF Core(In(i)).kind = "ZodArray" THEN ArrayOf("ObjectId") ELSE Ctor("ObjectId")
        /\ Has(i, "ref")
        /\ Out(i).ref = call.relationships[Key(i)]

\* the array type the element schema selects
ElementType(e) ==
  IF e.kind = "ZodString" THEN ArrayOf("String")
  ELSE IF e.kind = "ZodNumber" THEN ArrayOf("Number")
  ELSE IF e.kind = "ZodBoolean" THEN ArrayOf("Boolean")
  ELSE ArrayOf("Mixed")

\* C7: an Array field that is not a reference converts to an array type chosen
\* from its element: String, Number and Boolean map to themselves, every other
\* element to Mixed; required and default follow the field's wrappers.
C7_ArrayByElement ==
  Converted =>
    \A i \in FieldIndexes :
      (/\ Core(In(i)).kind = "ZodArray"
       /\ ~IsZodRef(Core(In(i)).type)
       /\ Key(i) \notin DOMAIN call.relationships) =>
        /\ Out(i).type = ElementType(Core(In(i)).type)
        /\ DOMAIN Out(i) \subseteq {"type", "required", "default"}
        /\ Out(i).required = ~HasLayer(In(i), "ZodOptional")
        /\ Has(i, "default") <=> HasLayer(In(i), "ZodDefault")
        /\ Has(i, "default") => Out(i).default \in LayerDefaults(In(i))

\* a schema with an optional array of numbers next to a required array of strings
C7_Witness ==
  /\ Converted
  /\ \E i, j \in FieldIndexes :
       /\ In(i) = ZodOptional(ZodArray(ZodNumber(<<>>)))
       /\ Out(i).type = ArrayOf("Number")
       /\ Out(i).required = FALSE
       /\ In(j) = ZodArray(ZodString(<<>>))
       /\ Out(j).type = ArrayOf("String")
       /\ Out(j).required = TRUE

ValuesOf(checks, kind) == {checks[j].value : j \in {k \in 1..Len(checks) : checks[k].kind = kind}}

HasCheck(checks, kinds) == \E j \in 1..Len(checks) : checks[j].kind \in kinds

\* the key of `kind` is present exactly when a check of the kind is, and holds
\* the check's value
RoundTrip(i, checks, kind, key) ==
  /\ Has(i, key) <=> ValuesOf(checks, kind) # {}
  /\ Cardinality(ValuesOf(checks, kind)) = 1 => Out(i)[key] \in ValuesOf(checks, kind)

\* C9: constraint round-trip.  String checks min=a, max=b, length=n give
\* minlength=a, maxlength=b, length=n; Number checks min=a, max=b give min=a,
\* max=b; a constraint key is present only if its check is.
C9_ConstraintRoundTrip ==
  Converted =>
    \A i \in FieldIndexes :
      LET core == Core(In(i))
      IN /\ core.kind = "ZodString" =>
              /\ RoundTrip(i, core.checks, "min", "minlength")
              /\ RoundTrip(i, core.checks, "max", "maxlength")
              /\ RoundTrip(i, core.checks, "length", "length")
              /\ Has(i, "match") <=> HasCheck(core.checks, {"email", "regex"})
              /\ DOMAIN Out(i) \subseteq
                   {"type", "required", "default", "minlength", "maxlength", "length", "match"}
         /\ core.kind = "ZodNumber" =>
              /\ RoundTrip(i, core.checks, "min", "min")
              /\ RoundTrip(i, core.checks, "max", "max")
              /\ Has(i, "validate") <=> HasCheck(core.checks, {"int"})
              /\ DOMAIN Out(i) \subseteq {"type", "required", "default", "min", "max", "validate"}

\* an optional string with min 12 and max 24
C9_Witness ==
  /\ Converted
  /\ \E i \in FieldIndexes :
       /\ In(i) = ZodOptional(ZodString(<<Check("min", 12), Check("max", 24)>>))
       /\ Out(i).minlength = 12
       /\ Out(i).maxlength = 24
       /\ ~Has(i, "length")

\* C10: zodToMongoose raises no exception under any input shape, a schema that
\* is not Object-shaped included.
C10_NeverThrows ==
  (pc = "returned" /\ call.op = "zodToMongoose") => ret.kind = "return"

\* C11: the output has exactly the field names of the input shape, one
\* definition per field, in declaration order; the empty schema gives the
\* empty map.
C11_SameKeysSameOrder ==
  Converted =>
    /\ Len(ret.value) = Len(call.zodSchema.shape)
    /\ \A i \in FieldIndexes : ret.value[i].key = Key(i)
    /\ call.zodSchema.shape = <<>> => ret.value = <<>>

\* a schema of three fields converted to three definitions in the same order
C11_Witness ==
  /\ Converted
  /\ Len(call.zodSchema.shape) = 3
  /\ <<ret.value[1].key, ret.value[2].key, ret.value[3].key>> = <<"f", "age", "name">>
  /\ ret.value[1].field # ret.value[2].field

\* a createMongooseModel call returns in this step
CreateStep == pc = "idle" /\ pc' = "returned" /\ call'.op = "createMongooseModel"

\* the number of mongoose.model calls made for a name
ModelCalls(name) == Cardinality({i \in 1..Len(modelLog) : modelLog[i] = name})

\* what one step does to the registry and, when it is a createMongooseModel
\* call, what the call returns
C12_Step ==
  /\ \A n \in DOMAIN models : n \in DOMAIN models' /\ models'[n] = models[n]
  /\ CreateStep =>
       LET n == call'.modelName
           d == zodToMongoose(call'.zodSchema)
       IN /\ n \in DOMAIN models =>
               /\ ret' = Returned(models[n])
               /\ models' = models
               /\ modelLog' = modelLog
          /\ (n \notin DOMAIN models /\ d.kind = "return") =>
               /\ modelLog' = Append(modelLog, n)
               /\ DOMAIN models' = DOMAIN models \cup {n}
               /\ models'[n].schema = NewSchema(d.value, [timestamps |-> TRUE])
               /\ ret' = Returned(models'[n])
          /\ (n \notin DOMAIN models /\ d.kind = "throw") =>
               /\ ret'.kind = "throw"
               /\ models' = models
               /\ modelLog' = modelLog

\* C12: createMongooseModel is idempotent per name.  A registered model is never
\* replaced and a call for a registered name returns it, so two calls with one
\* name return the identical model; mongoose.model is called at most once per
\* name; a call for a new name makes exactly one registration, built from
\* zodToMongoose(schema) with timestamps enabled.
C12_IdempotentPerName ==
  /\ [](\A n \in ModelNames : ModelCalls(n) <= 1)
  /\ [][C12_Step]_vars

\* a later call with another schema got the model the first call registered
C12_Witness ==
  /\ pc = "returned"
  /\ call.op = "createMongooseModel"
  /\ ret.kind = "return"
  /\ Len(modelLog) = 2
  /\ ret.value.id = 1
  /\ ret.value.modelName = call.modelName
  /\ ret.value.schema.options.timestamps
  /\ call.zodSchema.kind = "ZodObject"
  /\ ret.value.schema.definition # zodToMongoose(call.zodSchema).value

(***************************************************************************)
(* Vocabulary of the properties of zodToObject.                            *)
(***************************************************************************)
\* the datum satisfies the schema
RECURSIVE Accepts(_, _)
Accepts(schema, data) ==
  CASE schema.kind = "ZodString" ->
         /\ data.ty = "string"
         /\ \A i \in 1..Len(schema.checks) :
              LET c == schema.checks[i]
              IN /\ c.kind = "min" => Len(data.v) >= c.value
                 /\ c.kind = "max" => Len(data.v) <= c.value
                 /\ c.kind = "length" => Len(data.v) = c.value
    [] schema.kind = "ZodNumber" -> data.ty = "number"
    [] schema.kind = "ZodBoolean" -> data.ty = "boolean"
    [] schema.kind = "ZodLiteral" -> data = schema.value
    [] schema.kind = "ZodOptional" -> data.ty = "undefined" \/ Accepts(schema.innerType, data)
    [] schema.kind = "ZodNullable" -> data.ty = "null" \/ Accepts(schema.innerType, data)
    [] schema.kind = "ZodDefault" ->
         IF data.ty = "undefined" THEN Accepts(schema.innerType, schema.defaultValue)
         ELSE Accepts(schema.innerType, data)
    [] schema.kind = "ZodObject" ->
         /\ data.ty = "object"
         /\ \A i \in 1..Len(schema.shape) :
              Accepts(schema.shape[i].schema, Prop(data, schema.shape[i].key))
    [] schema.kind = "ZodEffects" -> Accepts(schema.schema, data)
    [] OTHER -> TRUE

\* a zodToObject call has returned or raised
Validated == pc = "returned" /\ call.op = "zodToObject"

PartialAsked == call.options.given /\ call.options.partial

\* the field reaches its default when the input has no value for it: its
\* outermost layer is Defaulted, or Nullable layers over a Defaulted one
RECURSIVE DefaultedField(_)
DefaultedField(d) ==
  \/ d.kind = "ZodDefault"
  \/ d.kind = "ZodNullable" /\ DefaultedField(d.innerType)

RECURSIVE FieldDefault(_)
FieldDefault(d) == IF d.kind = "ZodDefault" THEN d.defaultValue ELSE FieldDefault(d.innerType)

\* C13: without the partial option, when the input satisfies the schema,
\* zodToObject raises nothing and returns the schema's parsed value, in which
\* every missing Defaulted field holds its default.
C13_ValidInputParsedWithDefaults ==
  (Validated /\ ~PartialAsked /\ Accepts(call.zodSchema, call.data)) =>
    /\ ret.kind = "return"
    /\ ret.value = SafeParse(call.zodSchema, call.data, <<>>).data
    /\ call.zodSchema.kind = "ZodObject" =>
         \A i \in 1..Len(call.zodSchema.shape) :
           LET key == call.zodSchema.shape[i].key
               field == call.zodSchema.shape[i].schema
           IN (DefaultedField(field) /\ Prop(call.data, key).ty = "undefined") =>
                /\ key \in DOMAIN ret.value.fields
                /\ ret.value.fields[key] = FieldDefault(field)

\* {} against {name: default 'Anonymous', age: default 25} returns both defaults
C13_Witness ==
  /\ Validated
  /\ ~call.options.given
  /\ call.data = ObjVal(NoFields)
  /\ ret = Returned(ObjVal([name |-> StrVal("Anonymous"), age |-> NumVal(25)]))

\* the entries "<dotted.path> - <message>" of the first k issues, joined by ", "
RECURSIVE DottedPath(_)
DottedPath(path) ==
  IF path = <<>> THEN ""
  ELSE IF Len(path) = 1 THEN path[1]
  ELSE DottedPath(SubSeq(path, 1, Len(path) - 1)) \o "." \o path[Len(path)]

RECURSIVE Entries(_, _)
Entries(issues, k) ==
  LET entry == DottedPath(issues[k].path) \o " - " \o issues[k].message
  IN IF k = 1 THEN entry ELSE Entries(issues, k - 1) \o ", " \o entry

\* what the schema used for the call reports on the call's input
Reported == SafeParse(SchemaToUse(call.zodSchema, call.options), call.data, <<>>)

\* C14: on invalid input zodToObject raises one error and returns no value; the
\* message holds one entry "<dotted.path> - <message>" for every violation the
\* schema reports, in the order reported, joined by ", ".
C14_AggregateError ==
  (Validated /\ ~Accepts(SchemaToUse(call.zodSchema, call.options), call.data)) =>
    /\ ret.kind = "throw"
    /\ Reported.issues # <<>>
    /\ ret.error = "Zod validation error: " \o Entries(Reported.issues, Len(Reported.issues))

\* two violations, one of them nested, both in the message
C14_Witness ==
  /\ Validated
  /\ ret.kind = "throw"
  /\ Len(Reported.issues) = 2
  /\ ret.error = "Zod validation error: user.name - Required, age - Expected number, received string"

\* the input is an object without a key that the schema requires
LacksRequiredField ==
  /\ call.zodSchema.kind = "ZodObject"
  /\ call.data.ty = "object"
  /\ \E i \in 1..Len(call.zodSchema.shape) :
       /\ call.zodSchema.shape[i].key \notin DOMAIN call.data.fields
       /\ ~Accepts(call.zodSchema.shape[i].schema, Undefined)

\* without partial, the call raises and the message has an entry for the path
\* of every missing required field
RaisesNamingMissingFields ==
  /\ ret.kind = "throw"
  /\ ret.error = "Zod validation error: " \o Entries(Reported.issues, Len(Reported.issues))
  /\ \A i \in 1..Len(call.zodSchema.shape) :
       (/\ call.zodSchema.shape[i].key \notin DOMAIN call.data.fields
        /\ ~Accepts(call.zodSchema.shape[i].schema, Undefined)) =>
         \E j \in 1..Len(Reported.issues) :
           Reported.issues[j].path = <<call.zodSchema.shape[i].key>>

ShapeKeys == {call.zodSchema.shape[i].key : i \in 1..Len(call.zodSchema.shape)}

\* every value the input holds for a field of the schema satisfies the field
PresentFieldsValid ==
  \A i \in 1..Len(call.zodSchema.shape) :
    Accepts(ZodOptional(call.zodSchema.shape[i].schema), Prop(call.data, call.zodSchema.shape[i].key))

IsScalar(value) == value.ty # "object"

C19_UnwrapTerminates ==
  /\ [](pc = "loop" => <>(pc = "exited"))
  /\ [](pc = "exited" =>
          locals.currentSchema.kind \notin {"ZodOptional", "ZodNullable", "ZodDefault"})

\* a chain Nullable(Nullable(Optional(leaf))) takes more than one pass and ends
\* on the leaf
C19_Witness ==
  /\ pc = "exited"
  /\ Len(Layers(call.schema)) = 3
  /\ call.schema.kind = "ZodNullable"
  /\ call.schema.innerType.kind = "ZodNullable"
  /\ call.schema.innerType.innerType.kind = "ZodOptional"
  /\ locals.currentSchema = call.schema.innerType.innerType.innerType

\* the value of the outermost Defaulted layer of a field
RECURSIVE OutermostDefault(_)
OutermostDefault(d) ==
  IF d.kind = "ZodDefault" THEN d.defaultValue ELSE OutermostDefault(d.innerType)

\* C20: the recorded default of a field is the value of its outermost (first
\* encountered) Defaulted layer; inner Defaulted layers do not change it.
C20_OutermostDefaultRecorded ==
  Converted =>
    \A i \in FieldIndexes :
      HasLayer(In(i), "ZodDefault") =>
        /\ Has(i, "default")
        /\ Out(i).default = OutermostDefault(In(i))

\* a zodToPrisma call has returned or raised
Generated == pc = "returned" /\ call.op = "zodToPrisma"

Text == ret.value

Contains(line) == \E q \in 1..Len(Text) : Text[q] = line

\* the names given to the models of a list
GivenNames == {e.name : e \in ModelEntries}

IsHeader(line) == \E n \in GivenNames : line = "model " \o n \o " {"

\* the line that opens the block of the i-th entry, and the line that closes it
HeaderAt(i) ==
  CHOOSE q \in 1..Len(Text) :
    IsHeader(Text[q]) /\ Cardinality({h \in 1..q : IsHeader(Text[h])}) = i

BlockEnd(i) ==
  CHOOSE q \in HeaderAt(i)..Len(Text) :
    Text[q] = "}" /\ \A h \in HeaderAt(i)..(q - 1) : Text[h] # "}"

InBlock(i, line) == \E q \in (HeaderAt(i) + 1)..(BlockEnd(i) - 1) : Text[q] = line

\* what may follow a field's name on its line: a type, a mark, attributes
ColumnTypes == {"String", "Float", "Boolean", "DateTime", "Json", "RoleEnum"} \cup GivenNames

Uncapitalised ==
  [n \in GivenNames |->
     CASE n = "User" -> "user" [] n = "Profile" -> "profile" [] n = "Post" -> "post"
       [] n = "Role" -> "role" [] OTHER -> n]

Attributes ==
  {"", " @unique", " @id @default(uuid())", " @default(25)"}
  \cup {" @relation(\"" \o a \o "To" \o b \o "\")" : a, b \in GivenNames}
  \cup {" @relation(\"" \o a \o "To" \o b \o "\", fields: [" \o Uncapitalised[b] \o "Id], references: [id])" :
          a, b \in GivenNames}

Columns == {t \o m \o a : t \in ColumnTypes, m \in {"", "?", "[]"}, a \in Attributes}

\* the line declares the field `key`
Declares(line, key) == \E column \in Columns : line = "  " \o key \o " " \o column

\* C16: when an entry of the model list carries a schema that is not
\* Object-shaped, zodToPrisma raises 'Only ZodObject schemas are supported for
\* Prisma model generation.' and returns no text, wherever the entry stands.
C16_UnsupportedSchemaRaises ==
  (Generated /\ \E i \in 1..Len(call.models) : call.models[i].schema.kind # "ZodObject") =>
    /\ ret.kind = "throw"
    /\ ret.error = "Only ZodObject schemas are supported for Prisma model generation."
    /\ "value" \notin DOMAIN ret

\* two Object schemas in front of the offending entry do not save the call
C16_Witness ==
  /\ Generated
  /\ Len(call.models) = 3
  /\ call.models[1].schema.kind = "ZodObject"
  /\ call.models[2].schema.kind = "ZodObject"
  /\ call.models[3].schema.kind = "ZodString"
  /\ ret.kind = "throw"

\* C17: for a list of Object-shaped schemas the text starts with the fixed
\* datasource/generator preamble, which is followed by exactly one
\* `model <Name> {` block per entry, in input order; in a block the lines of
\* the schema's own fields come first, in declaration order, and every further
\* line of the block declares none of the schema's fields.
C17_OneBlockPerEntryInOrder ==
  (Generated /\ \A i \in 1..Len(call.models) : call.models[i].schema.kind = "ZodObject") =>
    /\ ret.kind = "return"
    /\ SubSeq(Text, 1, 9) =
         << "datasource db {", "  provider = \"postgresql\"",
            "  url      = env(\"POSTGRESQL_DATABASE_URL\")", "}", "",
            "generator client {", "  provider = \"prisma-client-js\"", "}", "" >>
    /\ SelectSeq(Text, IsHeader) =
         [i \in 1..Len(call.models) |-> "model " \o call.models[i].name \o " {"]
    /\ \A i \in 1..Len(call.models) :
         LET shape == call.models[i].schema.shape
             first == HeaderAt(i) + 1
             last == BlockEnd(i) - 1
         IN /\ first > 9
            /\ last - first + 1 >= Len(shape)
            /\ \A k \in 1..Len(shape) : Declares(Text[first + k - 1], shape[k].key)
            /\ \A q \in (first + Len(shape))..last :
                 \A k \in 1..Len(shape) : ~Declares(Text[q], shape[k].key)

\* three blocks, the first of them with synthesized lines after its own fields
C17_Witness ==
  /\ Generated
  /\ ret.kind = "return"
  /\ Len(call.models) = 3
  /\ call.models[1] # call.models[2]
  /\ BlockEnd(1) - HeaderAt(1) - 1 > Len(call.models[1].schema.shape)
  /\ HeaderAt(3) > BlockEnd(2)

\* C18: when registered schema A has a field whose descriptor is registered
\* schema B and B holds the String field `<a>Id`, A's block has the line
\* `<field> B @relation("AToB")`, and B's block has `<a>Id String @unique`
\* and `<a> A @relation("BToA", fields: [<a>Id], references: [id])`.
C18_OneToOneLines ==
  (Generated /\ ret.kind = "return") =>
    \A i, j \in 1..Len(call.models) :
      LET A == call.models[i].name
          B == call.models[j].name
          a == Uncapitalised[A]
          shapeA == call.models[i].schema.shape
          shapeB == call.models[j].schema.shape
      IN \A k \in 1..Len(shapeA) :
           (/\ call.models[i].schema \in DOMAIN call.schemaToModelName
            /\ call.models[j].schema \in DOMAIN call.schemaToModelName
            /\ shapeA[k].schema = call.models[j].schema
            /\ \E f \in 1..Len(shapeB) :
                 shapeB[f].key = a \o "Id" /\ shapeB[f].schema.kind = "ZodString") =>
             /\ InBlock(i, "  " \o shapeA[k].key \o " " \o B \o " @relation(\"" \o A \o "To" \o B \o "\")")
             /\ InBlock(j, "  " \o a \o "Id String @unique")
             /\ InBlock(j, "  " \o a \o " " \o A \o " @relation(\"" \o B \o "To" \o A
                             \o "\", fields: [" \o a \o "Id], references: [id])")

\* User {profile: Profile} and Profile {userId}: the three lines are there
C18_Witness ==
  /\ Generated
  /\ call.models = <<ModelEntry("User", userSchema), ModelEntry("Profile", profileSchema)>>
  /\ call.schemaToModelName # NoMap
  /\ ret.kind = "return"
  /\ InBlock(1, "  profile Profile @relation(\"UserToProfile\")")
  /\ InBlock(2, "  userId String @unique")
  /\ InBlock(2, "  user User @relation(\"ProfileToUser\", fields: [userId], references: [id])")
\* the field schema without the p-th layer of its wrapper chain
RECURSIVE WithoutLayer(_, _)
WithoutLayer(d, p) ==
  IF p = 1 THEN d.innerType
  ELSE [d EXCEPT !.innerType = WithoutLayer(d.innerType, p - 1)]

NullablePositions(d) == {p \in 1..Len(Layers(d)) : Layers(d)[p].kind = "ZodNullable"}

\* C21: for every field and every position of a Nullable layer in its wrapper
\* chain, the definition produced for the field equals the definition the
\* converter produces for the same field without that layer.
C21_NullableLeavesNoTrace ==
  Converted =>
    \A i \in FieldIndexes :
      \A p \in NullablePositions(In(i)) :
        LET other == zodToMongoose(ZodObject(<<Entry(Key(i), WithoutLayer(In(i), p))>>))
        IN /\ other.kind = "return"
           /\ Out(i) = other.value[1].field

\* a Nullable layer between a Defaulted and an Optional layer over a String
\* with checks
C21_Witness ==
  /\ Converted
  /\ \E i \in FieldIndexes :
       /\ In(i).kind = "ZodDefault"
       /\ In(i).innerType.kind = "ZodNullable"
       /\ In(i).innerType.innerType.kind = "ZodOptional"
       /\ In(i).innerType.innerType.innerType.kind = "ZodString"
       /\ Has(i, "minlength")
       /\ Out(i).required = FALSE
       /\ Out(i) = ConvertField(WithoutLayer(In(i), 2))
\* the types of the scalar and array branches
NonReferenceTypes ==
  {Ctor(n) : n \in {"String", "Number", "Boolean", "Date", "Mixed"}}
  \cup {ArrayOf(n) : n \in {"String", "Number", "Boolean", "Mixed"}}
  \cup {[form |-> "typeof", name |-> t] : t \in {"string", "number", "boolean"}}

ConstraintKeys == {"minlength", "maxlength", "match", "length", "min", "max", "enum", "validate"}

Widened(schema) ==
  [schema EXCEPT !.shape = [i \in 1..Len(schema.shape) |->
                              [schema.shape[i] EXCEPT !.schema = ZodOptional(schema.shape[i].schema)]]]

\* C23: with partial false or absent, and with partial true on a schema that is
\* not an Object (a String, an Object under a transform such as zodRef), the
\* outcome is that of the call without options and the input is validated
\* against the schema as given; only with partial true on an Object schema is
\* the input validated against the widened schema.
C23_WideningOnlyForObjects ==
  Validated =>
    IF PartialAsked /\ call.zodSchema.kind = "ZodObject"
    THEN ret.kind = "return" <=> Accepts(Widened(call.zodSchema), call.data)
    ELSE /\ ret = zodToObject(call.zodSchema, call.data, NoOptions)
         /\ ret.kind = "return" <=> Accepts(call.zodSchema, call.data)

\* partial: true on zodRef('User') with an input that lacks `id` still raises
C23_Witness ==
  /\ Validated
  /\ PartialAsked
  /\ call.zodSchema = zodRef("User", Id24)
  /\ call.data = ObjVal([_ref |-> StrVal("User")])
  /\ ret = Thrown("Zod validation error: id - Required")
\* a step in which zodToMongoose or zodToObject is called and returns
ConverterStep == pc = "idle" /\ pc' = "returned" /\ call'.op \in {"zodToMongoose", "zodToObject"}

\* C24: in every interleaving of zodToMongoose, zodToObject and
\* createMongooseModel calls on shared schema objects, a converter call leaves
\* the registry and the schema objects as they were, every schema object stays
\* the schema it was built as, and the outcome of a converter call is the
\* outcome of the call on the schema as built, whatever the registry holds and
\* whatever calls, with or without partial, came before.
C24_ConvertersArePure ==
  /\ [][ConverterStep => (models' = models /\ modelLog' = modelLog /\ heap' = heap)]_vars
  /\ [](heap = SharedSchemas)
  /\ []((pc = "returned" /\ call.op = "zodToObject") =>
          ret = zodToObject(SharedSchemas[call.ref], call.data, call.options))
  /\ []((pc = "returned" /\ call.op = "zodToMongoose") =>
          ret = zodToMongoose(SharedSchemas[call.ref]))

\* after a partial call on {name, age}, and with a model registered, a call
\* without partial on the same object and {name: 'John'} still raises
C24_Witness ==
  /\ pc = "returned"
  /\ call.op = "zodToObject"
  /\ call.ref = 1
  /\ call.ref \in widened
  /\ ~call.options.given
  /\ call.data = ObjVal([name |-> StrVal("John")])
  /\ models # NoModels
  /\ ret = Thrown("Zod validation error: age - Required")
\* C25: a createMongooseModel call on a name already in the registry changes
\* neither the registry nor the record of mongoose.model calls and returns the
\* model registered under the name, whatever schema it is given: also a
\* schema other than the one the model was built from, and also a schema
\* that zodToMongoose cannot convert.
C25_RegisteredNameIgnoresSchema ==
  [][(CreateStep /\ call'.modelName \in DOMAIN models) =>
       /\ ret'.kind = "return"
       /\ ret'.value = models[call'.modelName]
       /\ models' = models
       /\ modelLog' = modelLog]_vars

\* a String schema, which a new name raises on, got the registered model
C25_Witness ==
  /\ pc = "returned"
  /\ call.op = "createMongooseModel"
  /\ call.zodSchema = ZodString(<<>>)
  /\ zodToMongoose(call.zodSchema).kind = "throw"
  /\ ret.kind = "return"
  /\ ret.value = models[call.modelName]
\* the descriptors of the fields `_ref` and `id` of an Object that has both
RefOf(d) == d.shape[CHOOSE j \in 1..Len(d.shape) : d.shape[j].key = "_ref"].schema
IdOf(d) == d.shape[CHOOSE j \in 1..Len(d.shape) : d.shape[j].key = "id"].schema

HasRefAndId(d) ==
  /\ d.kind = "ZodObject"
  /\ \E j \in 1..Len(d.shape) : d.shape[j].key = "_ref"
  /\ \E j \in 1..Len(d.shape) : d.shape[j].key = "id"

RefIsStringLiteral(d) == RefOf(d).kind = "ZodLiteral" /\ RefOf(d).value.ty = "string"

IdIsString(d) == IdOf(d).kind = "ZodString"

IdHasLength24(d) ==
  \E c \in 1..Len(IdOf(d).checks) : IdOf(d).checks[c].kind = "length" /\ IdOf(d).checks[c].value = 24

PlainMixed(i) == Out(i).type = Ctor("Mixed") /\ ~Has(i, "ref")

\* C26: an Object with `_ref` and `id` whose `_ref` is a string literal and
\* whose `id` is a String with a length check of 24 is a reference, extra
\* fields or not; when `_ref` is not a string literal, or `id` is not directly
\* a String, or `id` has no length check of exactly 24, the field is plain
\* Mixed without `ref`.
C26_MarkerRecognitionIsExact ==
  Converted =>
    \A i \in FieldIndexes :
      LET d == Core(In(i))
      IN HasRefAndId(d) =>
           /\ (RefIsStringLiteral(d) /\ IdIsString(d) /\ IdHasLength24(d)) =>
                /\ Out(i).type = Ctor("ObjectId")
                /\ Has(i, "ref")
                /\ Out(i).ref = RefOf(d).value.v
           /\ ~RefIsStringLiteral(d) => PlainMixed(i)
           /\ ~IdIsString(d) => PlainMixed(i)
           /\ (IdIsString(d) /\ ~IdHasLength24(d)) => PlainMixed(i)

\* `_ref` is the literal 'User' and `id` a String with min(24): plain Mixed
C26_Witness ==
  /\ Converted
  /\ \E i \in FieldIndexes :
       /\ In(i) = ZodObject(<<Entry("_ref", ZodLiteral(StrVal("User"))),
                              Entry("id", ZodString(<<Check("min", 24)>>))>>)
       /\ Out(i).type = Ctor("Mixed")
       /\ DOMAIN Out(i) = {"type", "required"}
\* the output key a check of a String or Number field writes, "" for none
KeyWritten(kind, check) ==
  IF kind = "ZodString"
  THEN CASE check.kind = "min" -> "minlength"
         [] check.kind = "max" -> "maxlength"
         [] check.kind = "length" -> "length"
         [] check.kind \in {"email", "regex"} -> "match"
         [] OTHER -> ""
  ELSE CASE check.kind = "min" -> "min"
         [] check.kind = "max" -> "max"
         [] OTHER -> ""

\* the value the check stands for: its bound, strict or not, or its pattern
ValueWritten(check) ==
  CASE check.kind = "email" -> "/^[^\\s@]+@[^\\s@]+\\.[^\\s@]+$/"
    [] check.kind = "regex" -> check.regex
    [] OTHER -> check.value

BoundKeys == {"minlength", "maxlength", "length", "match", "min", "max"}

Writers(d, key) == {c \in 1..Len(d.checks) : KeyWritten(d.kind, d.checks[c]) = key}

LastOf(S) == CHOOSE c \in S : \A e \in S : e <= c

\* C27: for a String or Number field, each bound or pattern key of the
\* definition holds the value of the last check in the field's list that
\* writes the key, a strict bound giving the same value as an inclusive one,
\* and a key no check writes is absent.
C27_LastCheckWins ==
  Converted =>
    \A i \in FieldIndexes :
      LET d == Core(In(i))
      IN d.kind \in {"ZodString", "ZodNumber"} =>
           \A key \in BoundKeys :
             IF Writers(d, key) = {} THEN ~Has(i, key)
             ELSE /\ Has(i, key)
                  /\ Out(i)[key] = ValueWritten(d.checks[LastOf(Writers(d, key))])

\* min(12) followed by the strict gt(24): min is 24
C27_Witness ==
  /\ Converted
  /\ \E i \in FieldIndexes :
       /\ In(i) = ZodNumber(<<NumCheck("min", 12, TRUE), NumCheck("min", 24, FALSE)>>)
       /\ Out(i).min = 24
       /\ ~Has(i, "max")
\* the entry of a violation: at the root nothing stands in front of " - "
EntryOf(issue) ==
  IF issue.path = <<>> THEN " - " \o issue.message
  ELSE DottedPath(issue.path) \o " - " \o issue.message

RECURSIVE EntriesFrom(_, _)
EntriesFrom(issues, k) ==
  IF k = Len(issues) THEN EntryOf(issues[k])
  ELSE EntryOf(issues[k]) \o ", " \o EntriesFrom(issues, k + 1)

\* the message Zod gives a datum of the wrong type
WrongType(expected, data) ==
  IF data.ty = "undefined" THEN "Required"
  ELSE "Expected " \o expected \o ", received " \o data.ty

\* C28: every error zodToObject raises has the message 'Zod validation error: '
\* followed by the joined entries, and a violation at the root contributes the
\* entry ' - <message>': an input of the wrong top-level type gives exactly
\* 'Zod validation error:  - <message>'.
C28_PrefixAndRootEntry ==
  (Validated /\ ret.kind = "throw") =>
    /\ ret.error = "Zod validation error: " \o EntriesFrom(Reported.issues, 1)
    /\ (call.zodSchema.kind = "ZodObject" /\ call.data.ty # "object") =>
         ret.error = "Zod validation error:  - " \o WrongType("object", call.data)
    /\ (call.zodSchema.kind = "ZodString" /\ call.data.ty # "string") =>
         ret.error = "Zod validation error:  - " \o WrongType("string", call.data)

\* a string handed to an Object schema
C28_Witness ==
  /\ Validated
  /\ call.zodSchema.kind = "ZodObject"
  /\ call.data = StrVal("John")
  /\ ret = Thrown("Zod validation error:  - Expected object, received string")

====
